---- MODULE Spec2Model ----
(***************************************************************************)
(* A model of scripts/selenium-scrape-galascan.py: the GalaScan Selenium   *)
(* scraper.  Texts are sequences of one-character strings, so that the     *)
(* script's regular expressions are evaluated character by character.      *)
(* The browser (Selenium WebDriver), the console and the file system are   *)
(* the environment: what a driver call returns, and whether it raises, is  *)
(* a nondeterministic input of the step that makes the call.               *)
(***************************************************************************)
EXTENDS Integers, Sequences, FiniteSets, TLC

(***************************************************************************)
(* Characters and character classes of Python's re module.  The alphabet   *)
(* is ASCII, the decimal digits of \d and the white space of \s beyond     *)
(* ASCII, and the three letters beyond ASCII that re.IGNORECASE matches    *)
(* with a letter of the patterns.                                          *)
(* A character that has no string literal here is written as its Python    *)
(* escape: "\\x0b" is the one character \x0b.                              *)
(***************************************************************************)
\* The decimal digits of Unicode (category Nd), ten to a row, each row in
\* the order of the digits' values 0 to 9
DigitBlocks ==
  <<
    <<"0", "1", "2", "3", "4", "5", "6", "7", "8", "9">>,
    <<"\\u0660", "\\u0661", "\\u0662", "\\u0663", "\\u0664", "\\u0665", "\\u0666", "\\u0667", "\\u0668", "\\u0669">>,
    <<"\\u06f0", "\\u06f1", "\\u06f2", "\\u06f3", "\\u06f4", "\\u06f5", "\\u06f6", "\\u06f7", "\\u06f8", "\\u06f9">>,
    <<"\\u07c0", "\\u07c1", "\\u07c2", "\\u07c3", "\\u07c4", "\\u07c5", "\\u07c6", "\\u07c7", "\\u07c8", "\\u07c9">>,
    <<"\\u0966", "\\u0967", "\\u0968", "\\u0969", "\\u096a", "\\u096b", "\\u096c", "\\u096d", "\\u096e", "\\u096f">>,
    <<"\\u09e6", "\\u09e7", "\\u09e8", "\\u09e9", "\\u09ea", "\\u09eb", "\\u09ec", "\\u09ed", "\\u09ee", "\\u09ef">>,
    <<"\\u0a66", "\\u0a67", "\\u0a68", "\\u0a69", "\\u0a6a", "\\u0a6b", "\\u0a6c", "\\u0a6d", "\\u0a6e", "\\u0a6f">>,
    <<"\\u0ae6", "\\u0ae7", "\\u0ae8", "\\u0ae9", "\\u0aea", "\\u0aeb", "\\u0aec", "\\u0aed", "\\u0aee", "\\u0aef">>,
    <<"\\u0b66", "\\u0b67", "\\u0b68", "\\u0b69", "\\u0b6a", "\\u0b6b", "\\u0b6c", "\\u0b6d", "\\u0b6e", "\\u0b6f">>,
    <<"\\u0be6", "\\u0be7", "\\u0be8", "\\u0be9", "\\u0bea", "\\u0beb", "\\u0bec", "\\u0bed", "\\u0bee", "\\u0bef">>,
    <<"\\u0c66", "\\u0c67", "\\u0c68", "\\u0c69", "\\u0c6a", "\\u0c6b", "\\u0c6c", "\\u0c6d", "\\u0c6e", "\\u0c6f">>,
    <<"\\u0ce6", "\\u0ce7", "\\u0ce8", "\\u0ce9", "\\u0cea", "\\u0ceb", "\\u0cec", "\\u0ced", "\\u0cee", "\\u0cef">>,
    <<"\\u0d66", "\\u0d67", "\\u0d68", "\\u0d69", "\\u0d6a", "\\u0d6b", "\\u0d6c", "\\u0d6d", "\\u0d6e", "\\u0d6f">>,
    <<"\\u0de6", "\\u0de7", "\\u0de8", "\\u0de9", "\\u0dea", "\\u0deb", "\\u0dec", "\\u0ded", "\\u0dee", "\\u0def">>,
    <<"\\u0e50", "\\u0e51", "\\u0e52", "\\u0e53", "\\u0e54", "\\u0e55", "\\u0e56", "\\u0e57", "\\u0e58", "\\u0e59">>,
    <<"\\u0ed0", "\\u0ed1", "\\u0ed2", "\\u0ed3", "\\u0ed4", "\\u0ed5", "\\u0ed6", "\\u0ed7", "\\u0ed8", "\\u0ed9">>,
    <<"\\u0f20", "\\u0f21", "\\u0f22", "\\u0f23", "\\u0f24", "\\u0f25", "\\u0f26", "\\u0f27", "\\u0f28", "\\u0f29">>,
    <<"\\u1040", "\\u1041", "\\u1042", "\\u1043", "\\u1044", "\\u1045", "\\u1046", "\\u1047", "\\u1048", "\\u1049">>,
    <<"\\u1090", "\\u1091", "\\u1092", "\\u1093", "\\u1094", "\\u1095", "\\u1096", "\\u1097", "\\u1098", "\\u1099">>,
    <<"\\u17e0", "\\u17e1", "\\u17e2", "\\u17e3", "\\u17e4", "\\u17e5", "\\u17e6", "\\u17e7", "\\u17e8", "\\u17e9">>,
    <<"\\u1810", "\\u1811", "\\u1812", "\\u1813", "\\u1814", "\\u1815", "\\u1816", "\\u1817", "\\u1818", "\\u1819">>,
    <<"\\u1946", "\\u1947", "\\u1948", "\\u1949", "\\u194a", "\\u194b", "\\u194c", "\\u194d", "\\u194e", "\\u194f">>,
    <<"\\u19d0", "\\u19d1", "\\u19d2", "\\u19d3", "\\u19d4", "\\u19d5", "\\u19d6", "\\u19d7", "\\u19d8", "\\u19d9">>,
    <<"\\u1a80", "\\u1a81", "\\u1a82", "\\u1a83", "\\u1a84", "\\u1a85", "\\u1a86", "\\u1a87", "\\u1a88", "\\u1a89">>,
    <<"\\u1a90", "\\u1a91", "\\u1a92", "\\u1a93", "\\u1a94", "\\u1a95", "\\u1a96", "\\u1a97", "\\u1a98", "\\u1a99">>,
    <<"\\u1b50", "\\u1b51", "\\u1b52", "\\u1b53", "\\u1b54", "\\u1b55", "\\u1b56", "\\u1b57", "\\u1b58", "\\u1b59">>,
    <<"\\u1bb0", "\\u1bb1", "\\u1bb2", "\\u1bb3", "\\u1bb4", "\\u1bb5", "\\u1bb6", "\\u1bb7", "\\u1bb8", "\\u1bb9">>,
    <<"\\u1c40", "\\u1c41", "\\u1c42", "\\u1c43", "\\u1c44", "\\u1c45", "\\u1c46", "\\u1c47", "\\u1c48", "\\u1c49">>,
    <<"\\u1c50", "\\u1c51", "\\u1c52", "\\u1c53", "\\u1c54", "\\u1c55", "\\u1c56", "\\u1c57", "\\u1c58", "\\u1c59">>,
    <<"\\ua620", "\\ua621", "\\ua622", "\\ua623", "\\ua624", "\\ua625", "\\ua626", "\\ua627", "\\ua628", "\\ua629">>,
    <<"\\ua8d0", "\\ua8d1", "\\ua8d2", "\\ua8d3", "\\ua8d4", "\\ua8d5", "\\ua8d6", "\\ua8d7", "\\ua8d8", "\\ua8d9">>,
    <<"\\ua900", "\\ua901", "\\ua902", "\\ua903", "\\ua904", "\\ua905", "\\ua906", "\\ua907", "\\ua908", "\\ua909">>,
    <<"\\ua9d0", "\\ua9d1", "\\ua9d2", "\\ua9d3", "\\ua9d4", "\\ua9d5", "\\ua9d6", "\\ua9d7", "\\ua9d8", "\\ua9d9">>,
    <<"\\ua9f0", "\\ua9f1", "\\ua9f2", "\\ua9f3", "\\ua9f4", "\\ua9f5", "\\ua9f6", "\\ua9f7", "\\ua9f8", "\\ua9f9">>,
    <<"\\uaa50", "\\uaa51", "\\uaa52", "\\uaa53", "\\uaa54", "\\uaa55", "\\uaa56", "\\uaa57", "\\uaa58", "\\uaa59">>,
    <<"\\uabf0", "\\uabf1", "\\uabf2", "\\uabf3", "\\uabf4", "\\uabf5", "\\uabf6", "\\uabf7", "\\uabf8", "\\uabf9">>,
    <<"\\uff10", "\\uff11", "\\uff12", "\\uff13", "\\uff14", "\\uff15", "\\uff16", "\\uff17", "\\uff18", "\\uff19">>,
    <<"\\U000104a0", "\\U000104a1", "\\U000104a2", "\\U000104a3", "\\U000104a4", "\\U000104a5", "\\U000104a6", "\\U000104a7", "\\U000104a8", "\\U000104a9">>,
    <<"\\U00010d30", "\\U00010d31", "\\U00010d32", "\\U00010d33", "\\U00010d34", "\\U00010d35", "\\U00010d36", "\\U00010d37", "\\U00010d38", "\\U00010d39">>,
    <<"\\U00011066", "\\U00011067", "\\U00011068", "\\U00011069", "\\U0001106a", "\\U0001106b", "\\U0001106c", "\\U0001106d", "\\U0001106e", "\\U0001106f">>,
    <<"\\U000110f0", "\\U000110f1", "\\U000110f2", "\\U000110f3", "\\U000110f4", "\\U000110f5", "\\U000110f6", "\\U000110f7", "\\U000110f8", "\\U000110f9">>,
    <<"\\U00011136", "\\U00011137", "\\U00011138", "\\U00011139", "\\U0001113a", "\\U0001113b", "\\U0001113c", "\\U0001113d", "\\U0001113e", "\\U0001113f">>,
    <<"\\U000111d0", "\\U000111d1", "\\U000111d2", "\\U000111d3", "\\U000111d4", "\\U000111d5", "\\U000111d6", "\\U000111d7", "\\U000111d8", "\\U000111d9">>,
    <<"\\U000112f0", "\\U000112f1", "\\U000112f2", "\\U000112f3", "\\U000112f4", "\\U000112f5", "\\U000112f6", "\\U000112f7", "\\U000112f8", "\\U000112f9">>,
    <<"\\U00011450", "\\U00011451", "\\U00011452", "\\U00011453", "\\U00011454", "\\U00011455", "\\U00011456", "\\U00011457", "\\U00011458", "\\U00011459">>,
    <<"\\U000114d0", "\\U000114d1", "\\U000114d2", "\\U000114d3", "\\U000114d4", "\\U000114d5", "\\U000114d6", "\\U000114d7", "\\U000114d8", "\\U000114d9">>,
    <<"\\U00011650", "\\U00011651", "\\U00011652", "\\U00011653", "\\U00011654", "\\U00011655", "\\U00011656", "\\U00011657", "\\U00011658", "\\U00011659">>,
    <<"\\U000116c0", "\\U000116c1", "\\U000116c2", "\\U000116c3", "\\U000116c4", "\\U000116c5", "\\U000116c6", "\\U000116c7", "\\U000116c8", "\\U000116c9">>,
    <<"\\U00011730", "\\U00011731", "\\U00011732", "\\U00011733", "\\U00011734", "\\U00011735", "\\U00011736", "\\U00011737", "\\U00011738", "\\U00011739">>,
    <<"\\U000118e0", "\\U000118e1", "\\U000118e2", "\\U000118e3", "\\U000118e4", "\\U000118e5", "\\U000118e6", "\\U000118e7", "\\U000118e8", "\\U000118e9">>,
    <<"\\U00011950", "\\U00011951", "\\U00011952", "\\U00011953", "\\U00011954", "\\U00011955", "\\U00011956", "\\U00011957", "\\U00011958", "\\U00011959">>,
    <<"\\U00011c50", "\\U00011c51", "\\U00011c52", "\\U00011c53", "\\U00011c54", "\\U00011c55", "\\U00011c56", "\\U00011c57", "\\U00011c58", "\\U00011c59">>,
    <<"\\U00011d50", "\\U00011d51", "\\U00011d52", "\\U00011d53", "\\U00011d54", "\\U00011d55", "\\U00011d56", "\\U00011d57", "\\U00011d58", "\\U00011d59">>,
    <<"\\U00011da0", "\\U00011da1", "\\U00011da2", "\\U00011da3", "\\U00011da4", "\\U00011da5", "\\U00011da6", "\\U00011da7", "\\U00011da8", "\\U00011da9">>,
    <<"\\U00016a60", "\\U00016a61", "\\U00016a62", "\\U00016a63", "\\U00016a64", "\\U00016a65", "\\U00016a66", "\\U00016a67", "\\U00016a68", "\\U00016a69">>,
    <<"\\U00016ac0", "\\U00016ac1", "\\U00016ac2", "\\U00016ac3", "\\U00016ac4", "\\U00016ac5", "\\U00016ac6", "\\U00016ac7", "\\U00016ac8", "\\U00016ac9">>,
    <<"\\U00016b50", "\\U00016b51", "\\U00016b52", "\\U00016b53", "\\U00016b54", "\\U00016b55", "\\U00016b56", "\\U00016b57", "\\U00016b58", "\\U00016b59">>,
    <<"\\U0001d7ce", "\\U0001d7cf", "\\U0001d7d0", "\\U0001d7d1", "\\U0001d7d2", "\\U0001d7d3", "\\U0001d7d4", "\\U0001d7d5", "\\U0001d7d6", "\\U0001d7d7">>,
    <<"\\U0001d7d8", "\\U0001d7d9", "\\U0001d7da", "\\U0001d7db", "\\U0001d7dc", "\\U0001d7dd", "\\U0001d7de", "\\U0001d7df", "\\U0001d7e0", "\\U0001d7e1">>,
    <<"\\U0001d7e2", "\\U0001d7e3", "\\U0001d7e4", "\\U0001d7e5", "\\U0001d7e6", "\\U0001d7e7", "\\U0001d7e8", "\\U0001d7e9", "\\U0001d7ea", "\\U0001d7eb">>,
    <<"\\U0001d7ec", "\\U0001d7ed", "\\U0001d7ee", "\\U0001d7ef", "\\U0001d7f0", "\\U0001d7f1", "\\U0001d7f2", "\\U0001d7f3", "\\U0001d7f4", "\\U0001d7f5">>,
    <<"\\U0001d7f6", "\\U0001d7f7", "\\U0001d7f8", "\\U0001d7f9", "\\U0001d7fa", "\\U0001d7fb", "\\U0001d7fc", "\\U0001d7fd", "\\U0001d7fe", "\\U0001d7ff">>,
    <<"\\U0001e140", "\\U0001e141", "\\U0001e142", "\\U0001e143", "\\U0001e144", "\\U0001e145", "\\U0001e146", "\\U0001e147", "\\U0001e148", "\\U0001e149">>,
    <<"\\U0001e2f0", "\\U0001e2f1", "\\U0001e2f2", "\\U0001e2f3", "\\U0001e2f4", "\\U0001e2f5", "\\U0001e2f6", "\\U0001e2f7", "\\U0001e2f8", "\\U0001e2f9">>,
    <<"\\U0001e950", "\\U0001e951", "\\U0001e952", "\\U0001e953", "\\U0001e954", "\\U0001e955", "\\U0001e956", "\\U0001e957", "\\U0001e958", "\\U0001e959">>,
    <<"\\U0001fbf0", "\\U0001fbf1", "\\U0001fbf2", "\\U0001fbf3", "\\U0001fbf4", "\\U0001fbf5", "\\U0001fbf6", "\\U0001fbf7", "\\U0001fbf8", "\\U0001fbf9">>
  >>

DigitChars == DigitBlocks[1]

\* \d of a str pattern: every decimal digit of Unicode
Digits == UNION {{DigitBlocks[b][k] : k \in 1..10} : b \in 1..Len(DigitBlocks)}

DigitsOrComma == Digits \cup {","}

\* [a-fA-F0-9]: a class of ASCII characters
HexDigits ==
    {DigitChars[k] : k \in 1..Len(DigitChars)}
        \cup {"a", "b", "c", "d", "e", "f", "A", "B", "C", "D", "E", "F"}

\* \s of a str pattern: str.isspace()
Whitespace ==
    {" ", "\t", "\n", "\r", "\f", "\\x0b", "\\x1c", "\\x1d", "\\x1e", "\\x1f",
     "\\x85", "\\xa0", "\\u1680", "\\u2000", "\\u2001", "\\u2002", "\\u2003",
     "\\u2004", "\\u2005", "\\u2006", "\\u2007", "\\u2008", "\\u2009", "\\u200a",
     "\\u2028", "\\u2029", "\\u202f", "\\u205f", "\\u3000"}

LowerCase == <<"a", "b", "c", "d", "e", "f", "g", "h", "i", "j", "k", "l", "m",
               "n", "o", "p", "q", "r", "s", "t", "u", "v", "w", "x", "y", "z">>

UpperCase == <<"A", "B", "C", "D", "E", "F", "G", "H", "I", "J", "K", "L", "M",
               "N", "O", "P", "Q", "R", "S", "T", "U", "V", "W", "X", "Y", "Z">>

\* str.upper() on one character; the long s has the upper case S
Upper(c) ==
    IF \E k \in 1..Len(LowerCase) : LowerCase[k] = c
    THEN UpperCase[CHOOSE k \in 1..Len(LowerCase) : LowerCase[k] = c]
    ELSE IF c = "\\u017f" THEN "S"
    ELSE c

\* the case folding of re.IGNORECASE on one character: the dotted capital I
\* and the dotless i match i, the long s matches s
Fold(c) == IF c \in {"\\u0130", "\\u0131"} THEN "I" ELSE Upper(c)

\* str.upper()
UpperStr(s) == [k \in 1..Len(s) |-> Upper(s[k])]

MinOf(S) == CHOOSE m \in S : \A n \in S : m <= n

\* The first index j >= at of s whose character is not in the class S
\* (Len(s) + 1 when there is none): where a greedy S* started there stops.
RunEnd(s, at, S) ==
    LET J == {j \in at..Len(s) : s[j] \notin S}
    IN IF J = {} THEN Len(s) + 1 ELSE MinOf(J)

\* The literal w stands in s at index at (case-sensitive)
LitAt(s, at, w) ==
    /\ at >= 1
    /\ at + Len(w) - 1 <= Len(s)
    /\ \A k \in 1..Len(w) : s[at + k - 1] = w[k]

\* The literal w stands in s at index at under re.IGNORECASE
WordAt(s, at, w) ==
    /\ at >= 1
    /\ at + Len(w) - 1 <= Len(s)
    /\ \A k \in 1..Len(w) : Fold(s[at + k - 1]) = Fold(w[k])

\* n digits in s at index at
DigitsAt(s, at, n) ==
    /\ at >= 1
    /\ at + n - 1 <= Len(s)
    /\ \A k \in at..(at + n - 1) : s[k] \in Digits

NoMatch == [found |-> FALSE]

\* The token-amount pattern of lines 109 and 198, under re.IGNORECASE:
\*     one or more of digit or comma, an optional dot, digits, white space,
\*     then one of GALA, GUSDC, GWETH, GUSDT.
\* No symbol starts with a digit, a comma, a dot or white space, so the
\* greedy match is the only match at a given start.
TokenSymbols == << <<"G", "A", "L", "A">>,
                   <<"G", "U", "S", "D", "C">>,
                   <<"G", "W", "E", "T", "H">>,
                   <<"G", "U", "S", "D", "T">> >>

TokenMatchAt(s, at) ==
    IF s[at] \notin DigitsOrComma THEN NoMatch
    ELSE LET j1 == RunEnd(s, at, DigitsOrComma)
             j2 == IF j1 <= Len(s) /\ s[j1] = "." THEN j1 + 1 ELSE j1
             j3 == RunEnd(s, j2, Digits)
             j4 == RunEnd(s, j3, Whitespace)
             K  == {k \in 1..Len(TokenSymbols) : WordAt(s, j4, TokenSymbols[k])}
         IN IF K = {} THEN NoMatch
            ELSE LET w == TokenSymbols[MinOf(K)]
                 IN [found  |-> TRUE,
                     stop   |-> j4 + Len(w),
                     amount |-> SubSeq(s, at, j3 - 1),
                     symbol |-> SubSeq(s, j4, j4 + Len(w) - 1)]

\* The leftmost match at or after pos
TokenSearchFrom(s, pos) ==
    LET I == {at \in pos..Len(s) : TokenMatchAt(s, at).found}
    IN IF I = {} THEN NoMatch ELSE TokenMatchAt(s, MinOf(I))

\* re.search(token pattern, text, re.IGNORECASE)
TokenSearch(s) == TokenSearchFrom(s, 1)

RECURSIVE TokenFindAllFrom(_, _)
\* the match m and the matches after it
TokenFindAllAfter(s, m) ==
    IF m.found THEN <<m>> \o TokenFindAllFrom(s, m.stop) ELSE <<>>

TokenFindAllFrom(s, pos) == TokenFindAllAfter(s, TokenSearchFrom(s, pos))

\* re.findall(token pattern, text, re.IGNORECASE): the non-overlapping
\* matches, left to right
TokenFindAll(s) == TokenFindAllFrom(s, 1)

(***************************************************************************)
(* float(amount.replace(',', '')) on a string the token pattern captured:  *)
(* digits and commas, an optional dot, digits.  The value is the decimal   *)
(* m / 10^e with no trailing zero in the fraction; float() raises          *)
(* ValueError when no digit is left.                                       *)
(***************************************************************************)
RemoveCommas(a) == SelectSeq(a, LAMBDA c : c # ",")

\* float() reads every decimal digit of Unicode by its value
DigitVal(c) ==
    (CHOOSE k \in 1..10 : \E b \in 1..Len(DigitBlocks) : DigitBlocks[b][k] = c) - 1

RECURSIVE DigitsToInt(_)
DigitsToInt(d) ==
    IF d = <<>> THEN 0
    ELSE 10 * DigitsToInt(SubSeq(d, 1, Len(d) - 1)) + DigitVal(d[Len(d)])

RECURSIVE StripTrailingZeros(_)
StripTrailingZeros(d) ==
    IF d # <<>> /\ DigitVal(d[Len(d)]) = 0
    THEN StripTrailingZeros(SubSeq(d, 1, Len(d) - 1))
    ELSE d

ParseFloat(a) ==
    LET t    == RemoveCommas(a)
        D    == {k \in 1..Len(t) : t[k] = "."}
        ip   == IF D = {} THEN t ELSE SubSeq(t, 1, MinOf(D) - 1)
        fp   == IF D = {} THEN <<>> ELSE StripTrailingZeros(SubSeq(t, MinOf(D) + 1, Len(t)))
        none == IF D = {} THEN t = <<>> ELSE Len(t) = 1
    IN IF none THEN [ok |-> FALSE]
       ELSE [ok |-> TRUE, value |-> [m |-> DigitsToInt(ip \o fp), e |-> Len(fp)]]

\* The hash pattern of line 176 (case-sensitive): 0x and HashLen hex digits
HashLen == 64

HashAt(s, at) ==
    /\ LitAt(s, at, <<"0", "x">>)
    /\ at + 1 + HashLen <= Len(s)
    /\ \A k \in (at + 2)..(at + 1 + HashLen) : s[k] \in HexDigits

HashSearch(s) ==
    LET I == {at \in 1..Len(s) : HashAt(s, at)}
    IN IF I = {} THEN NoMatch
       ELSE [found |-> TRUE, group |-> SubSeq(s, MinOf(I), MinOf(I) + 1 + HashLen)]

(***************************************************************************)
(* The three date patterns, tried in this order; the first that matches    *)
(* anywhere in the text gives the date.                                    *)
(***************************************************************************)
\* 4 digits, "-", 2 digits, "-", 2 digits (line 182): the index after the
\* match that starts there, 0 when there is none
IsoDateEnd(s, at) ==
    IF /\ DigitsAt(s, at, 4) /\ LitAt(s, at + 4, <<"-">>)
       /\ DigitsAt(s, at + 5, 2) /\ LitAt(s, at + 7, <<"-">>)
       /\ DigitsAt(s, at + 8, 2)
    THEN at + 10 ELSE 0

\* 1 or 2 digits, "/", 1 or 2 digits, "/", 4 digits (line 183)
SlashDateEnd(s, at) ==
    LET AB == {ab \in {1, 2} \X {1, 2} :
                 /\ DigitsAt(s, at, ab[1])
                 /\ LitAt(s, at + ab[1], <<"/">>)
                 /\ DigitsAt(s, at + ab[1] + 1, ab[2])
                 /\ LitAt(s, at + ab[1] + 1 + ab[2], <<"/">>)
                 /\ DigitsAt(s, at + ab[1] + ab[2] + 2, 4)}
    IN IF AB = {} THEN 0
       ELSE LET ab == CHOOSE x \in AB : TRUE IN at + ab[1] + ab[2] + 6

TimeUnits == << <<"m", "i", "n", "u", "t", "e">>, <<"h", "o", "u", "r">>, <<"d", "a", "y">> >>

\* digits, white space, minute or hour or day, an optional s, white space,
\* ago (line 184), under re.IGNORECASE
RelDateEnd(s, at) ==
    IF ~DigitsAt(s, at, 1) THEN 0
    ELSE LET j1 == RunEnd(s, at, Digits)
             j2 == RunEnd(s, j1, Whitespace)
             K  == {k \in 1..Len(TimeUnits) : WordAt(s, j2, TimeUnits[k])}
         IN IF K = {} THEN 0
            ELSE LET j3 == j2 + Len(TimeUnits[MinOf(K)])
                     j4 == IF WordAt(s, j3, <<"s">>) THEN j3 + 1 ELSE j3
                     j5 == RunEnd(s, j4, Whitespace)
                 IN IF WordAt(s, j5, <<"a", "g", "o">>) THEN j5 + 3 ELSE 0

DatePatternEnd(p, s, at) ==
    CASE p = 1 -> IsoDateEnd(s, at)
      [] p = 2 -> SlashDateEnd(s, at)
      [] p = 3 -> RelDateEnd(s, at)

\* re.search(date_patterns[p], text, re.IGNORECASE)
DatePatternSearch(p, s) ==
    LET I == {at \in 1..Len(s) : DatePatternEnd(p, s, at) > 0}
    IN IF I = {} THEN NoMatch
       ELSE [found |-> TRUE,
             group |-> SubSeq(s, MinOf(I), DatePatternEnd(p, s, MinOf(I)) - 1)]

\* the loop over date_patterns with its break
DateSearch(s) ==
    LET P == {p \in 1..3 : DatePatternSearch(p, s).found}
    IN IF P = {} THEN NoMatch ELSE DatePatternSearch(MinOf(P), s)

\* swap, trade or exchange anywhere in the text (line 194), under re.IGNORECASE
SwapWords == << <<"s", "w", "a", "p">>, <<"t", "r", "a", "d", "e">>,
                <<"e", "x", "c", "h", "a", "n", "g", "e">> >>

SwapSearch(s) ==
    \E at \in 1..Len(s) : \E k \in 1..Len(SwapWords) : WordAt(s, at, SwapWords[k])

(***************************************************************************)
(* Python values.  A dict is a function on its keys (the empty dict is     *)
(* <<>>); None is a record of its own.                                     *)
(***************************************************************************)
None == [none |-> TRUE]

EmptyDict == <<>>

\* d[k] = v
Put(d, k, v) == (k :> v) @@ d

(***************************************************************************)
(* parse_transaction_element.  An element is what Selenium hands out: the  *)
(* selectors it matches, its rendered text, its attributes, and whether    *)
(* the reference is stale (reading a stale element raises).                *)
(***************************************************************************)
\* lines 199-205 on the matches ms of findall: the tokens list, or the
\* ValueError of float()
TokensOf(ms) ==
    IF \E k \in 1..Len(ms) : ~ParseFloat(ms[k].amount).ok
    THEN [raised |-> TRUE, tokens |-> <<>>]
    ELSE [raised |-> FALSE,
          tokens |-> [k \in 1..Len(ms) |->
                        [amount |-> ParseFloat(ms[k].amount).value,
                         symbol |-> UpperStr(ms[k].symbol)]]]

\* lines 198-205
TokenList(text) == TokensOf(TokenFindAll(text))

\* lines 173-205: the dict tx, from the hash match h, the date match d, the
\* keyword test and the tokens list t
TxOf(h, d, swap, t) ==
    (IF h.found THEN [hash |-> h.group] ELSE EmptyDict)
    @@ (IF d.found THEN [date |-> d.group] ELSE EmptyDict)
    @@ (IF swap THEN [type |-> "swap"] ELSE EmptyDict)
    @@ (IF t.tokens # <<>> THEN [tokens |-> t.tokens] ELSE EmptyDict)

AssembleTx(text) ==
    TxOf(HashSearch(text), DateSearch(text), SwapSearch(text), TokenList(text))

\* tx.get(key) is truthy
Truthy(tx, key) == key \in DOMAIN tx /\ tx[key] # <<>>

\* lines 208-214: only return if we found meaningful data
Accepted(tx) ==
    IF DOMAIN tx # {} /\ (Truthy(tx, "hash") \/ Truthy(tx, "tokens")) THEN tx ELSE None

parse_transaction_element(element) ==
    IF element.stale THEN None                        \* element.text raises: except, pass
    ELSE IF element.text = <<>> THEN None             \* if not text
    ELSE IF TokenList(element.text).raised THEN None  \* float() raises: except, pass
    ELSE Accepted(AssembleTx(element.text))

(***************************************************************************)
(* The texts the model is run on.                                          *)
(***************************************************************************)
HexRun == [k \in 1..HashLen |-> IF k % 2 = 1 THEN "3" ELSE "f"]

\* 0x and 64 hex digits
TxHash == <<"0", "x">> \o HexRun

\* 0x and 63 hex digits, then a character that is no hex digit
ShortHash == <<"0", "x">> \o SubSeq(HexRun, 1, HashLen - 1) \o <<"z">>

TxtIsoDate ==
    <<"2", "0", "2", "5", "-", "0", "9", "-", "2", "0">>

TxtSlashDate ==
    <<"9", "/", "5", "/", "2", "0", "2", "5">>

TxtRelDate ==
    <<"3", " ", "H", "o", "u", "r", "s", " ", "a", "g", "o">>

TxtSwap ==
    <<"S", "w", "a", "p">>

TxtExchange ==
    <<"E", "X", "C", "H", "A", "N", "G", "E">>

Txt10Gala ==
    <<"1", "0", " ", "G", "A", "L", "A">>

\* 7 in an Extended Arabic-Indic digit, then " gala"
Txt7gala ==
    <<"\\u06f7", " ", "g", "a", "l", "a">>

Txt25Gala ==
    <<"2", ".", "5", " ", "G", "A", "L", "A">>

TxtGusdcGala ==
    <<"1", ",", "2", "3", "4", ".", "5", "0", " ", "G", "U", "S", "D", "C",
    " ", "3", " ", "G", "A", "L", "A">>

TxtSwapPair ==
    <<"1", "0", " ", "G", "A", "L", "A", " ", "f", "o", "r", " ", "5", " ",
    "G", "U", "S", "D", "C">>

TxtCommaGala ==
    <<"G", "U", "S", "D", "C", ",", " ", "G", "A", "L", "A">>

TxtBareGala ==
    <<"G", "A", "L", "A">>

\* 4, a form feed, a vertical tab, gu, a long s, dt
TxtFormFeed ==
    <<"4", "\f", "\\x0b", "g", "u", "\\u017f", "d", "t">>

\* 5 m, a dotless i, nutes, a no-break space, ago
TxtRelDateNbsp ==
    <<"5", " ", "m", "\\u0131", "n", "u", "t", "e", "s", "\\xa0", "a", "g", "o">>

\* 3 in an Arabic-Indic digit, then " GWETH"
Txt3Gweth ==
    <<"\\u0663", " ", "G", "W", "E", "T", "H">>

\* 2025-09-20 in Arabic-Indic digits
TxtIsoDateArabic ==
    <<"\\u0662", "\\u0660", "\\u0662", "\\u0665", "-", "\\u0660", "\\u0669", "-",
      "\\u0662", "\\u0660">>

TxtLinkText ==
    <<"0", "x", "3", "f">>

TxtTxHref ==
    <<"h", "t", "t", "p", "s", ":", "/", "/", "g", "a", "l", "a", "s", "c",
    "a", "n", ".", "g", "a", "l", "a", ".", "c", "o", "m", "/", "t", "r",
    "a", "n", "s", "a", "c", "t", "i", "o", "n", "/", "0", "x", "3", "f">>

TxtWalletHref ==
    <<"h", "t", "t", "p", "s", ":", "/", "/", "g", "a", "l", "a", "s", "c",
    "a", "n", ".", "g", "a", "l", "a", ".", "c", "o", "m", "/", "w", "a",
    "l", "l", "e", "t", "/", "0", "x", "3", "f">>

TxtTransaction ==
    <<"t", "r", "a", "n", "s", "a", "c", "t", "i", "o", "n">>

Sp == <<" ">>

\* "Swap 10 GALA for 5 GUSDC 2025-09-20 0x3f3f..."
TxtSwapRow == TxtSwap \o Sp \o TxtSwapPair \o Sp \o TxtIsoDate \o Sp \o TxHash

\* "2025-09-20 Swap"
TxtDateRow == TxtIsoDate \o Sp \o TxtSwap

(***************************************************************************)
(* The rendered page, as Selenium shows it to the script: a sequence of    *)
(* nodes in document order.  A node is a WebElement: the locators that     *)
(* find it, its rendered text, its attributes, and whether reading it      *)
(* raises (a stale element reference).  The browser decides which nodes a  *)
(* locator finds; the script only sees the result.                         *)
(***************************************************************************)
BalanceSelectors == <<"div[class*='balance']", "div[class*='token']",
                      "div[class*='asset']", "span[class*='amount']">>

TransactionSelectors == <<"tr[class*='transaction']", "div[class*='transaction-row']",
                          "div[class*='tx-row']", "tbody tr", "div[role='row']">>

Css(sel) == <<"css selector", sel>>

LinkLocator == <<"partial link text", "0x">>

Node(locators, text, stale, attrs) ==
    [matches |-> locators, text |-> text, stale |-> stale, attrs |-> attrs]

DomElems == <<
    Node({Css(BalanceSelectors[1])}, Txt10Gala, FALSE, EmptyDict),
    Node({Css(BalanceSelectors[1])}, Txt7gala, FALSE, EmptyDict),
    Node({Css(BalanceSelectors[2])}, Txt25Gala, FALSE, EmptyDict),
    Node({Css(BalanceSelectors[3])}, TxtGusdcGala, FALSE, EmptyDict),
    Node({Css(BalanceSelectors[4])}, TxtCommaGala, FALSE, EmptyDict),
    Node({Css(BalanceSelectors[2])}, <<>>, TRUE, EmptyDict),
    Node({Css(TransactionSelectors[1]), Css(TransactionSelectors[4])},
         TxtSwapRow, FALSE, EmptyDict),
    Node({Css(TransactionSelectors[3]), Css(TransactionSelectors[5])},
         Txt3Gweth, FALSE, EmptyDict),
    Node({Css(TransactionSelectors[2]), Css(TransactionSelectors[5])},
         TxtDateRow, FALSE, EmptyDict),
    Node({Css(TransactionSelectors[4])}, <<>>, TRUE, EmptyDict),
    Node({LinkLocator}, TxtLinkText, FALSE, [href |-> TxtTxHref]),
    Node({LinkLocator}, TxtLinkText, FALSE, [href |-> TxtWalletHref]),
    Node({LinkLocator}, TxtLinkText, FALSE, EmptyDict),
    Node({LinkLocator}, <<>>, TRUE, [href |-> TxtTxHref]),
    Node({}, TxtGusdcGala, FALSE, EmptyDict) >>

NodeKinds == 1..Len(DomElems)

\* The longest run of equal nodes on a page
MaxCount == 21

Rep(x, n) == [k \in 1..n |-> x]

\* A page is a sequence of node kinds: a run of one kind, then at most one
\* node of another
Pages ==
    {Rep(a, n) \o Rep(b, m) : <<a, n, b, m>> \in
        NodeKinds \X {0, 1, MaxCount} \X NodeKinds \X {0, 1}}

\* driver.find_elements(by, value) on the page pg: the nodes found, in
\* document order
find_elements(pg, locator) ==
    SelectSeq(pg, LAMBDA n : locator \in DomElems[n].matches)

\* seq[:n]
First(seq, n) == SubSeq(seq, 1, IF Len(seq) < n THEN Len(seq) ELSE n)

\* w in s
Contains(s, w) == \E k \in 1..Len(s) : LitAt(s, k, w)

ElemCap == 20

LinkCap == 10

(***************************************************************************)
(* extract_wallet_data, lines 94-119.  The result is the local dict        *)
(* balances and what was raised inside the try block ("none" when nothing  *)
(* was): the query of selector failSel raises when failSel is not 0, and   *)
(* the first print the try block comes to raises when printOk is FALSE.    *)
(***************************************************************************)
\* lines 109-113 on the search result match of one element's text
BalanceOfMatch(match) ==
    IF ~match.found THEN [raised |-> "none", found |-> FALSE]
    ELSE IF ~ParseFloat(match.amount).ok THEN [raised |-> "float", found |-> FALSE]
    ELSE [raised |-> "none", found |-> TRUE,
          token  |-> UpperStr(match.symbol),
          amount |-> ParseFloat(match.amount).value]

\* lines 107-113 on one element: the text read, the search, float()
BalanceOf(n) ==
    IF DomElems[n].stale THEN [raised |-> "text", found |-> FALSE]
    ELSE BalanceOfMatch(TokenSearch(DomElems[n].text))

\* The table of f over the node kinds, as a sequence of values
Tabulate(f) == SubSeq(f, 1, Len(DomElems))

\* BalanceOf, evaluated once for each node kind
BalanceOfNode == Tabulate([n \in NodeKinds |-> BalanceOf(n)])

RECURSIVE BalanceElements(_, _, _, _)
\* the body of the inner loop on element j, whose outcome is b: the store of
\* line 113 and the print of line 114
BalanceElement(b, elements, j, bal, printOk) ==
    IF b.raised # "none" THEN [raised |-> b.raised, balances |-> bal]
    ELSE IF ~b.found THEN BalanceElements(elements, j + 1, bal, printOk)
    ELSE IF ~printOk THEN [raised |-> "print", balances |-> Put(bal, b.token, b.amount)]
    ELSE BalanceElements(elements, j + 1, Put(bal, b.token, b.amount), printOk)

\* the inner loop, from element j on
BalanceElements(elements, j, bal, printOk) ==
    IF j > Len(elements) THEN [raised |-> "none", balances |-> bal]
    ELSE BalanceElement(BalanceOfNode[elements[j]], elements, j, bal, printOk)

RECURSIVE BalanceSelectorLoop(_, _, _, _, _)
\* after the inner loop of selector k, whose outcome is r
BalanceSelectorDone(r, pg, k, failSel, printOk) ==
    IF r.raised # "none" THEN r
    ELSE BalanceSelectorLoop(pg, k + 1, failSel, r.balances, printOk)

\* the outer loop, from selector k on
BalanceSelectorLoop(pg, k, failSel, bal, printOk) ==
    IF k > Len(BalanceSelectors) THEN [raised |-> "none", balances |-> bal]
    ELSE IF failSel = k THEN [raised |-> "find_elements", balances |-> bal]
    ELSE BalanceSelectorDone(
             BalanceElements(find_elements(pg, Css(BalanceSelectors[k])), 1, bal, printOk),
             pg, k, failSel, printOk)

\* lines 116-119, after the loops, whose outcome is r: the print of line 119
\* where nothing was found
BalanceReport(r, printOk) ==
    IF r.raised = "none" /\ DOMAIN r.balances = {} /\ ~printOk
    THEN [raised |-> "print", balances |-> r.balances]
    ELSE r

extract_wallet_data(pg, failSel, printOk) ==
    BalanceReport(BalanceSelectorLoop(pg, 1, failSel, EmptyDict, printOk), printOk)

(***************************************************************************)
(* extract_transactions, lines 137-163.  The result is all_transactions    *)
(* and what was raised ("none" when nothing was); nothing in the method    *)
(* catches.  failSel in 1..5 makes that selector's query raise, 6 the      *)
(* link query.                                                             *)
(***************************************************************************)
\* parse_transaction_element, evaluated once for each node kind
ParsedNode == Tabulate([n \in NodeKinds |-> parse_transaction_element(DomElems[n])])

\* lines 145-147: the records of the elements whose parse is kept
ParsedOf(kept) == [k \in 1..Len(kept) |-> ParsedNode[kept[k]]]

\* lines 144-147: the records of one selector's elements
RowRecords_NoCap(elements) ==
    ParsedOf(SelectSeq(elements, LAMBDA n : ParsedNode[n] # None))

RowRecords(elements) ==
    ParsedOf(SelectSeq(First(elements, ElemCap), LAMBDA n : ParsedNode[n] # None))

RECURSIVE TransactionSelectorLoop(_, _, _, _)
TransactionSelectorLoop(pg, k, failSel, all_transactions) ==
    IF k > Len(TransactionSelectors)
    THEN [raised |-> "none", transactions |-> all_transactions]
    ELSE IF failSel = k
    THEN [raised |-> "find_elements", transactions |-> all_transactions]
    ELSE TransactionSelectorLoop(pg, k + 1, failSel,
             all_transactions
             \o RowRecords(find_elements(pg, Css(TransactionSelectors[k]))))

\* lines 156-161 on a link whose attributes were read
LinkRecord(link) ==
    IF "href" \notin DOMAIN link.attrs THEN [raised |-> "in", keep |-> FALSE]
    ELSE IF Contains(link.attrs.href, TxtTransaction)
    THEN [raised |-> "none", keep |-> TRUE,
          tx |-> [hash |-> link.text, link |-> link.attrs.href, type |-> "link"]]
    ELSE [raised |-> "none", keep |-> FALSE]

\* lines 154-161 on one link: get_attribute and text raise on a stale
\* reference, 'transaction' in None raises TypeError
LinkOf(n) ==
    IF DomElems[n].stale THEN [raised |-> "get_attribute", keep |-> FALSE]
    ELSE LinkRecord(DomElems[n])

\* LinkOf, evaluated once for each node kind
LinkOfNode == Tabulate([n \in NodeKinds |-> LinkOf(n)])

RECURSIVE LinkLoop(_, _, _)
\* the body of the link loop on link j, whose outcome is l
LinkStep(l, links, j, all_transactions) ==
    IF l.raised # "none"
    THEN [raised |-> l.raised, transactions |-> all_transactions]
    ELSE LinkLoop(links, j + 1,
             IF l.keep THEN Append(all_transactions, l.tx) ELSE all_transactions)

\* lines 153-161, from link j on
LinkLoop(links, j, all_transactions) ==
    IF j > Len(links) THEN [raised |-> "none", transactions |-> all_transactions]
    ELSE LinkStep(LinkOfNode[links[j]], links, j, all_transactions)

LinkQueryIndex == Len(TransactionSelectors) + 1

\* lines 150-161, after the selector loop, whose outcome is rows
LinkPhase(rows, pg, failSel) ==
    IF rows.raised # "none" THEN rows
    ELSE IF failSel = LinkQueryIndex
    THEN [raised |-> "find_elements", transactions |-> rows.transactions]
    ELSE LinkLoop(First(find_elements(pg, LinkLocator), LinkCap), 1, rows.transactions)

extract_transactions(pg, failSel) ==
    LinkPhase(TransactionSelectorLoop(pg, 1, failSel, <<>>), pg, failSel)

(***************************************************************************)
(* The process.                                                            *)
(*   pc            where the process stands                                *)
(*   driver        self.driver: "none" while the attribute is not set      *)
(*   transactions  self.transactions                                       *)
(*   has_balances  hasattr(self, 'balances'); balances is its value        *)
(*   page          the page the browser shows                              *)
(*   i, last_height, new_height   the locals of the scroll loop (0 while   *)
(*                 unbound, and again once scrape_wallet_page has ended)   *)
(*   exc           the exception in flight                                 *)
(*   exit_status   the exit status of the process, -1 while it runs        *)
(*   data_file, html_file, output   the two files and the document dumped  *)
(*   calls         the methods and driver calls made so far, in order      *)
(*   raised        the driver calls, conversions and file operations that  *)
(*                 raised so far, by name; of the console writes, the one  *)
(*                 inside the try of extract_wallet_data and those of      *)
(*                 calculate_stats                                         *)
(*   caught        how often the handler of run() has run                  *)
(*   p_element, p_result, p_done    the argument and the result of one     *)
(*                 call of parse_transaction_element (SpecParse)           *)
(***************************************************************************)
VARIABLES pc, driver, transactions, has_balances, balances, page,
          i, last_height, new_height, exc, exit_status,
          data_file, html_file, output, calls, raised, caught,
          p_element, p_result, p_done

vars == <<pc, driver, transactions, has_balances, balances, page,
          i, last_height, new_height, exc, exit_status,
          data_file, html_file, output, calls, raised, caught,
          p_element, p_result, p_done>>

objVars == <<driver, transactions, has_balances, balances>>

localVars == <<i, last_height, new_height>>

fileVars == <<data_file, html_file, output>>

parseVars == <<p_element, p_result, p_done>>

\* len(sys.argv) ranges over 1..MaxArgc
MaxArgc == 3

\* document.body.scrollHeight ranges over 1..MaxHeight
MaxHeight == 2

Heights == 1..MaxHeight

ScrollBudget == 3

NoOutput == [transactions |-> <<>>, balances |-> EmptyDict]

Init ==
    /\ pc = "main"
    /\ driver = "none"
    /\ transactions = <<>>
    /\ has_balances = FALSE
    /\ balances = EmptyDict
    /\ page = <<>>
    /\ i = 0 /\ last_height = 0 /\ new_height = 0
    /\ exc = "none"
    /\ exit_status = -1
    /\ data_file = "absent" /\ html_file = "absent" /\ output = NoOutput
    /\ calls = <<>>
    /\ raised = {}
    /\ caught = 0
    /\ p_element = Node({}, <<>>, FALSE, EmptyDict)
    /\ p_result = None
    /\ p_done = TRUE

\* An Exception is on its way to the handler of run()
Escape ==
    /\ exc' = "Exception"
    /\ pc' = "except"

\* The operation what raises, and nothing below run() catches
Raise(what) ==
    /\ Escape
    /\ raised' = raised \cup {what}

\* lines 289-298, the argument check and the constructor, and lines
\* 268-271, the prints of run() before its try: an exception there is
\* caught by nothing and ends the process with status 1
Main ==
    /\ pc = "main"
    /\ \E argc \in 1..MaxArgc, dateOk \in BOOLEAN, printOk \in BOOLEAN :
         IF argc < 3 \/ (dateOk /\ ~printOk)
         THEN pc' = "done" /\ exit_status' = 1 /\ UNCHANGED raised
         ELSE IF ~dateOk
         THEN pc' = "done" /\ exit_status' = 1 /\ raised' = raised \cup {"strptime"}
         ELSE pc' = "setup_driver" /\ UNCHANGED <<exit_status, raised>>
    /\ UNCHANGED <<objVars, page, localVars, exc, fileVars, calls, caught, parseVars>>

\* setup_driver, lines 30-51; printOk: the print of line 48 or of line 51
\* does not raise
SetupDriver ==
    /\ pc = "setup_driver"
    /\ \E chromeOk \in BOOLEAN, safariOk \in BOOLEAN, printOk \in BOOLEAN :
         IF chromeOk
         THEN /\ driver' = "chrome"
              /\ calls' = calls \o <<"setup_driver", "webdriver.Chrome">>
              /\ UNCHANGED raised
              /\ IF printOk THEN pc' = "load" /\ UNCHANGED exc ELSE Escape
         ELSE IF safariOk
         THEN /\ driver' = "safari"
              /\ calls' = calls \o <<"setup_driver", "webdriver.Chrome", "webdriver.Safari">>
              /\ raised' = raised \cup {"webdriver.Chrome"}
              /\ IF printOk THEN pc' = "load" /\ UNCHANGED exc ELSE Escape
         ELSE /\ driver' = "none"
              /\ calls' = calls \o <<"setup_driver", "webdriver.Chrome", "webdriver.Safari">>
              /\ raised' = raised \cup {"webdriver.Chrome", "webdriver.Safari"}
              /\ IF printOk THEN exc' = "SystemExit" /\ pc' = "finally" ELSE Escape
    /\ UNCHANGED <<transactions, has_balances, balances, page, localVars,
                   exit_status, fileVars, caught, parseVars>>

\* what can end LoadPage early: the print of line 59, driver.get, a print
\* of lines 63, 72 or 75, the wait (other than by TimeoutException), the
\* first execute_script
LoadOutcomes == {"print_url", "get", "print", "wait", "execute_script", "ok"}

\* scrape_wallet_page, lines 53-76: navigation, the wait for <main> (a
\* TimeoutException is caught, line 71), the first height
LoadPage ==
    /\ pc = "load"
    /\ \E outcome \in LoadOutcomes, pg \in Pages, h \in Heights :
         /\ calls' = calls \o (IF outcome = "print_url"
                                THEN <<"scrape_wallet_page">>
                                ELSE <<"scrape_wallet_page", "get">>)
         /\ page' = IF outcome \in {"print_url", "get"} THEN page ELSE pg
         /\ IF outcome = "ok"
            THEN /\ last_height' = h
                 /\ pc' = "scroll"
                 /\ UNCHANGED <<exc, raised>>
            ELSE /\ IF outcome \in {"print_url", "print"}
                    THEN Escape /\ UNCHANGED raised
                    ELSE Raise(outcome)
                 /\ UNCHANGED last_height
    /\ UNCHANGED <<objVars, i, new_height, exit_status, fileVars, caught, parseVars>>

\* the end of scrape_wallet_page's frame
DropLocals == i' = 0 /\ last_height' = 0 /\ new_height' = 0

ScrollIteration_NoBreak ==
    /\ pc = "scroll"
    /\ \E scriptOk \in BOOLEAN, h \in Heights :
         IF ~scriptOk
         THEN Raise("scroll") /\ DropLocals
         ELSE /\ new_height' = h
              /\ UNCHANGED <<exc, raised>>
              /\ last_height' = h
              /\ IF i + 1 < ScrollBudget
                 THEN pc' = "scroll" /\ i' = i + 1
                 ELSE pc' = "extract_wallet_data" /\ UNCHANGED i
    /\ UNCHANGED <<objVars, page, exit_status, fileVars, calls, caught, parseVars>>

\* one iteration of the scroll loop, lines 78-84
ScrollIteration ==
    /\ pc = "scroll"
    /\ \E scriptOk \in BOOLEAN, h \in Heights :
         IF ~scriptOk
         THEN Raise("scroll") /\ DropLocals
         ELSE /\ new_height' = h
              /\ UNCHANGED <<exc, raised>>
              /\ IF h = last_height
                 THEN pc' = "extract_wallet_data" /\ UNCHANGED <<i, last_height>>
                 ELSE /\ last_height' = h
                      /\ IF i + 1 < ScrollBudget
                         THEN pc' = "scroll" /\ i' = i + 1
                         ELSE pc' = "extract_wallet_data" /\ UNCHANGED i
    /\ UNCHANGED <<objVars, page, exit_status, fileVars, calls, caught, parseVars>>

\* lines 116-122: the outcome r of the try block; printOk: the print of
\* line 122, in the except clause, does not raise
WalletDataOutcome(r, printOk) ==
    IF r.raised # "none"
    THEN /\ raised' = raised \cup {"balances." \o r.raised}
         /\ UNCHANGED <<has_balances, balances>>
         /\ IF printOk
            THEN pc' = "extract_transactions" /\ UNCHANGED <<exc, localVars>>
            ELSE Escape /\ DropLocals
    ELSE /\ UNCHANGED <<raised, exc, localVars>>
         /\ pc' = "extract_transactions"
         /\ IF DOMAIN r.balances # {}
            THEN has_balances' = TRUE /\ balances' = r.balances
            ELSE UNCHANGED <<has_balances, balances>>

\* extract_wallet_data, lines 90-122; headerOk: the print of line 92,
\* before the try, does not raise; tryOk: no print inside the try does
ExtractWalletData ==
    /\ pc = "extract_wallet_data"
    /\ calls' = Append(calls, "extract_wallet_data")
    /\ \E failSel \in 0..Len(BalanceSelectors),
          headerOk \in BOOLEAN, tryOk \in BOOLEAN, printOk \in BOOLEAN :
         IF ~headerOk
         THEN Escape /\ DropLocals /\ UNCHANGED <<raised, has_balances, balances>>
         ELSE WalletDataOutcome(extract_wallet_data(page, failSel, tryOk), printOk)
    /\ UNCHANGED <<driver, transactions, page, exit_status, fileVars, caught, parseVars>>

\* lines 163-164, or the exception leaving the method: the outcome r;
\* printOk: the print of line 164 does not raise
TransactionsOutcome(r, printOk) ==
    IF r.raised # "none"
    THEN Raise("transactions." \o r.raised) /\ UNCHANGED transactions
    ELSE /\ transactions' = r.transactions
         /\ UNCHANGED raised
         /\ IF printOk THEN pc' = "calculate_stats" /\ UNCHANGED exc ELSE Escape

\* extract_transactions, lines 124-164, and the return of scrape_wallet_page;
\* headerOk: the prints of lines 126, 142 and 151 do not raise
ExtractTransactions ==
    /\ pc = "extract_transactions"
    /\ calls' = Append(calls, "extract_transactions")
    /\ \E failSel \in 0..LinkQueryIndex, headerOk \in BOOLEAN, printOk \in BOOLEAN :
         IF ~headerOk
         THEN Escape /\ UNCHANGED <<raised, transactions>>
         ELSE TransactionsOutcome(extract_transactions(page, failSel), printOk)
    /\ DropLocals
    /\ UNCHANGED <<driver, has_balances, balances, page, exit_status,
                   fileVars, caught, parseVars>>

CalculateStats_Swallow ==
    /\ pc = "calculate_stats"
    /\ calls' = Append(calls, "calculate_stats")
    /\ \E printOk \in BOOLEAN :
         /\ pc' = "save_results"
         /\ raised' = IF printOk THEN raised ELSE raised \cup {"calculate_stats.print"}
         /\ UNCHANGED exc
    /\ UNCHANGED <<objVars, page, localVars, exit_status, fileVars, caught, parseVars>>

\* calculate_stats, lines 239-264: console output only
CalculateStats ==
    /\ pc = "calculate_stats"
    /\ calls' = Append(calls, "calculate_stats")
    /\ \E printOk \in BOOLEAN :
         IF printOk
         THEN pc' = "save_results" /\ UNCHANGED <<exc, raised>>
         ELSE Raise("calculate_stats.print")
    /\ UNCHANGED <<objVars, page, localVars, exit_status, fileVars, caught, parseVars>>

\* the driver calls and file operations of save_results that can raise
SaveFailures == {"page_source", "open", "dump", "open_html", "page_source_html"}

\* and its prints, of lines 231 and 237
SaveOutcomes == SaveFailures \cup {"print", "print_html", "none"}

SaveResults_SkipEmpty ==
    /\ pc = "save_results"
    /\ calls' = Append(calls, "save_results")
    /\ \E fail \in SaveOutcomes :
         /\ data_file' = CASE fail \in {"page_source", "open"} \/ transactions = <<>> -> data_file
                           [] fail = "dump" -> "partial"
                           [] OTHER -> "written"
         /\ output' = IF fail \in {"page_source", "open", "dump"} \/ transactions = <<>>
                      THEN output
                      ELSE [transactions |-> transactions,
                            balances |-> IF has_balances THEN balances ELSE EmptyDict]
         /\ html_file' = CASE fail \in {"none", "print_html"} -> "written"
                           [] fail = "page_source_html" -> "partial"
                           [] OTHER -> html_file
         /\ IF fail = "none" THEN pc' = "finally" /\ UNCHANGED <<exc, raised>>
            ELSE IF fail \in SaveFailures THEN Raise("save_results." \o fail)
            ELSE Escape /\ UNCHANGED raised
    /\ UNCHANGED <<objVars, page, localVars, exit_status, caught, parseVars>>

\* save_results, lines 216-237
SaveResults ==
    /\ pc = "save_results"
    /\ calls' = Append(calls, "save_results")
    /\ \E fail \in SaveOutcomes :
         /\ data_file' = CASE fail \in {"page_source", "open"} -> data_file
                           [] fail = "dump" -> "partial"
                           [] OTHER -> "written"
         /\ output' = IF fail \in {"page_source", "open", "dump"} THEN output
                      ELSE [transactions |-> transactions,
                            balances |-> IF has_balances THEN balances ELSE EmptyDict]
         /\ html_file' = CASE fail \in {"none", "print_html"} -> "written"
                           [] fail = "page_source_html" -> "partial"
                           [] OTHER -> html_file
         /\ IF fail = "none" THEN pc' = "finally" /\ UNCHANGED <<exc, raised>>
            ELSE IF fail \in SaveFailures THEN Raise("save_results." \o fail)
            ELSE Escape /\ UNCHANGED raised
    /\ UNCHANGED <<objVars, page, localVars, exit_status, caught, parseVars>>

\* except Exception, lines 279-282; printOk: neither the print of line 280
\* nor traceback.print_exc() raises.  When one does, its exception leaves the
\* handler.
ExceptHandler ==
    /\ pc = "except"
    /\ caught' = caught + 1
    /\ \E printOk \in BOOLEAN : exc' = IF printOk THEN "none" ELSE "Exception"
    /\ pc' = "finally"
    /\ UNCHANGED <<objVars, page, localVars, exit_status, fileVars, calls, raised, parseVars>>

Finally_LeakOnError ==
    /\ pc = "finally"
    /\ \E quitOk \in BOOLEAN, printOk \in BOOLEAN :
         IF driver # "none" /\ caught = 0
         THEN /\ calls' = Append(calls, "quit")
              /\ exc' = IF quitOk /\ printOk THEN exc ELSE "Exception"
         ELSE UNCHANGED <<calls, exc>>
    /\ exit_status' = IF exc' = "none" THEN 0 ELSE 1
    /\ pc' = "done"
    /\ UNCHANGED <<objVars, page, localVars, fileVars, raised, caught, parseVars>>

\* finally, lines 284-287, and the end of the process.  quitOk: quit() does
\* not raise; printOk: the print of line 287 does not.  When one does, its
\* exception leaves run() in place of the one in flight.  An exception that
\* leaves run() (the SystemExit(1) of setup_driver, which except Exception
\* does not catch, or an Exception raised in the handler or here) ends the
\* process with status 1.
Finally ==
    /\ pc = "finally"
    /\ \E quitOk \in BOOLEAN, printOk \in BOOLEAN :
         IF driver # "none"
         THEN /\ calls' = Append(calls, "quit")
              /\ exc' = IF quitOk /\ printOk THEN exc ELSE "Exception"
         ELSE UNCHANGED <<calls, exc>>
    /\ exit_status' = IF exc' = "none" THEN 0 ELSE 1
    /\ pc' = "done"
    /\ UNCHANGED <<objVars, page, localVars, fileVars, raised, caught, parseVars>>

Next ==
    \/ Main
    \/ SetupDriver
    \/ LoadPage
    \/ ScrollIteration
    \/ ExtractWalletData
    \/ ExtractTransactions
    \/ CalculateStats
    \/ SaveResults
    \/ ExceptHandler
    \/ Finally

Spec == Init /\ [][Next]_vars

(***************************************************************************)
(* parse_transaction_element as a function of one element: SpecParse       *)
(* draws the element and applies the method to it.                         *)
(***************************************************************************)
HashFrags == {<<>>, TxHash, ShortHash}

DateFrags == {<<>>, TxtIsoDate, TxtSlashDate, TxtRelDate, TxtRelDateNbsp, TxtIsoDateArabic}

TypeFrags == {<<>>, TxtSwap, TxtExchange}

TokenFrags ==
    {<<>>, Txt10Gala, TxtGusdcGala, TxtSwapPair, TxtCommaGala, TxtBareGala, TxtFormFeed,
     Txt3Gweth}

\* keyword, date, token amounts and hash, each present or absent, with
\* spaces between them; and the empty text
ParseTexts ==
    {<<>>} \cup
    {q[1] \o Sp \o q[2] \o Sp \o q[3] \o Sp \o q[4] :
        q \in TypeFrags \X DateFrags \X TokenFrags \X HashFrags}

ParseElements ==
    {Node({}, t, FALSE, EmptyDict) : t \in ParseTexts}
    \cup {Node({}, <<>>, TRUE, EmptyDict)}

InitParse ==
    /\ pc = "main"
    /\ driver = "none"
    /\ transactions = <<>>
    /\ has_balances = FALSE
    /\ balances = EmptyDict
    /\ page = <<>>
    /\ i = 0 /\ last_height = 0 /\ new_height = 0
    /\ exc = "none"
    /\ exit_status = -1
    /\ data_file = "absent" /\ html_file = "absent" /\ output = NoOutput
    /\ calls = <<>>
    /\ raised = {}
    /\ caught = 0
    /\ p_element \in ParseElements
    /\ p_result = None
    /\ p_done = FALSE

ParseCall ==
    /\ ~p_done
    /\ p_result' = parse_transaction_element(p_element)
    /\ p_done' = TRUE
    /\ UNCHANGED <<pc, objVars, page, localVars, exc, exit_status, fileVars, calls,
                   raised, caught, p_element>>

NextParse == ParseCall

SpecParse == InitParse /\ [][NextParse]_vars

(***************************************************************************)
(* What is observed of a run: the calls made, the raises that left their   *)
(* method, the phases.                                                     *)
(***************************************************************************)
Called(c) == \E k \in 1..Len(calls) : calls[k] = c

Count(c) == Cardinality({k \in 1..Len(calls) : calls[k] = c})

QuitCalls == Count("quit")

Last(seq) == seq[Len(seq)]

LoadRaises == {"get", "wait", "execute_script", "scroll"}

\* the raises inside the try of extract_wallet_data
BalanceRaises ==
    {"balances.find_elements", "balances.text", "balances.float", "balances.print"}

TransactionRaises ==
    {"transactions.find_elements", "transactions.get_attribute", "transactions.in"}

ReportRaises == {"calculate_stats.print"}

\* an exception has reached the handler of run()
Failed == pc = "except" \/ caught > 0

NoBackend == {"webdriver.Chrome", "webdriver.Safari"} \subseteq raised

PhaseRank(c) ==
    CASE c = "setup_driver"        -> 1
      [] c = "scrape_wallet_page"   -> 2
      [] c = "extract_wallet_data"  -> 3
      [] c = "extract_transactions" -> 4
      [] c = "calculate_stats"      -> 5
      [] c = "save_results"         -> 6
      [] c = "quit"                 -> 7
      [] OTHER                      -> 0

\* the phases entered so far, in order
Phases == SelectSeq(calls, LAMBDA c : PhaseRank(c) > 0)

WorkPhases == SelectSeq(Phases, LAMBDA c : c # "quit")

(***************************************************************************)
(* C1: in every run whose setup_driver acquired a session, driver.quit()   *)
(* is called exactly once before run() returns, on the normal path and     *)
(* after a raise in loading, extraction, calculate_stats or save_results;  *)
(* it is never called twice, never skipped, and never called without a     *)
(* session.                                                                *)
(***************************************************************************)
C1_QuitExactlyOnce ==
    /\ QuitCalls <= 1
    /\ driver = "none" => QuitCalls = 0
    /\ QuitCalls = 1 => pc = "done" /\ Last(calls) = "quit"
    /\ pc = "done" /\ driver # "none" => QuitCalls = 1

C1_Witness ==
    /\ pc = "done"
    /\ driver # "none"
    /\ "save_results.dump" \in raised
    /\ QuitCalls = 1

(***************************************************************************)
(* C2: a query that raises in extract_transactions (find_elements,         *)
(* get_attribute, or the test of 'transaction' in href) is tolerated: the  *)
(* exception does not reach run()'s handler, and calculate_stats and       *)
(* save_results still run.                                                 *)
(***************************************************************************)
C2_QueryFailureTolerated ==
    raised \cap TransactionRaises # {} =>
        /\ exc = "none"
        /\ caught = 0
        /\ pc # "except"
        /\ pc = "done" => Called("calculate_stats") /\ Called("save_results")

(***************************************************************************)
(* C3: Chrome is tried first and Safari only after Chrome failed; when     *)
(* both fail the process ends with a non-zero status, and that run makes   *)
(* no navigation, no extraction, no quit call and no file write, and       *)
(* run()'s handler does not catch the exit.                                *)
(***************************************************************************)
C3_AcquisitionOrderAndAbort ==
    /\ Called("webdriver.Safari") =>
          /\ "webdriver.Chrome" \in raised
          /\ \E a, b \in 1..Len(calls) :
                a < b /\ calls[a] = "webdriver.Chrome" /\ calls[b] = "webdriver.Safari"
    /\ driver = "chrome" => ~Called("webdriver.Safari")
    /\ driver # "none" => Called("webdriver.Chrome")
    /\ NoBackend =>
          /\ pc \in {"finally", "done"}
          /\ driver = "none"
          /\ caught = 0
          /\ Phases = <<"setup_driver">>
          /\ ~Called("get")
          /\ data_file = "absent" /\ html_file = "absent"
          /\ pc = "done" => exit_status = 1

(***************************************************************************)
(* C4: once a session is acquired, an exception that leaves loading,       *)
(* extraction, calculate_stats or save_results is caught once by run(),    *)
(* the session is still released, nothing is re-raised, and the process    *)
(* ends with status 0 whatever the state of the output files.              *)
(***************************************************************************)
C4_CaughtOnceReleasedExitZero ==
    /\ caught <= 1
    /\ driver # "none" /\ Failed =>
          /\ pc \in {"except", "finally", "done"}
          /\ pc = "except" => caught = 0
          /\ pc \in {"finally", "done"} => caught = 1
          /\ pc = "done" => QuitCalls = 1 /\ exc = "none" /\ exit_status = 0

(***************************************************************************)
(* C5: the scroll loop runs at most ScrollBudget iterations; an iteration  *)
(* measures the height again after the scroll; when the new height equals  *)
(* the recorded one the loop ends at once, otherwise the recorded height   *)
(* becomes the new one and the loop goes on while the budget lasts.        *)
(***************************************************************************)
C5_ScrollLoop ==
    [][pc = "scroll" /\ pc' # "except" =>
          /\ i < ScrollBudget
          /\ new_height' \in Heights
          /\ new_height' = last_height =>
                pc' = "extract_wallet_data" /\ last_height' = last_height /\ i' = i
          /\ new_height' # last_height =>
                /\ last_height' = new_height'
                /\ IF i + 1 < ScrollBudget
                   THEN pc' = "scroll" /\ i' = i + 1
                   ELSE pc' = "extract_wallet_data"]_vars

\* the height was stable after the first iteration: the loop is over
C5_Witness ==
    /\ pc = "extract_wallet_data"
    /\ i = 0
    /\ new_height = last_height
    /\ new_height \in Heights

(***************************************************************************)
(* C6: parse_transaction_element returns a record exactly when the         *)
(* element's text has a hash match or at least one token-amount match,     *)
(* whatever else the text holds.                                           *)
(***************************************************************************)
C6_RecordIffHashOrTokenMatch ==
    p_done /\ ~p_element.stale =>
        (p_result # None
            <=> \/ HashSearch(p_element.text).found
                \/ TokenSearch(p_element.text).found)

(***************************************************************************)
(* C7: on a page where no balance selector, no transaction selector and    *)
(* no link locator matches, and with nothing raised after the session was  *)
(* acquired, the run goes through calculate_stats and save_results, writes *)
(* the data file with an empty balances mapping and an empty transactions  *)
(* list, releases the session and ends with status 0.                      *)
(***************************************************************************)
Locators ==
    {Css(BalanceSelectors[k]) : k \in 1..Len(BalanceSelectors)}
    \cup {Css(TransactionSelectors[k]) : k \in 1..Len(TransactionSelectors)}
    \cup {LinkLocator}

NothingMatches(pg) == \A loc \in Locators : find_elements(pg, loc) = <<>>

C7_EmptyPageRun ==
    /\ pc = "done"
    /\ Called("extract_transactions")
    /\ NothingMatches(page)
    /\ raised \subseteq {"webdriver.Chrome"}
    /\ caught = 0
    /\ exc = "none"
    => /\ Phases = <<"setup_driver", "scrape_wallet_page", "extract_wallet_data",
                     "extract_transactions", "calculate_stats", "save_results", "quit">>
       /\ data_file = "written"
       /\ DOMAIN output.balances = {}
       /\ output.transactions = <<>>
       /\ QuitCalls = 1
       /\ exit_status = 0

\* the page has elements, with token amounts in their text, that no
\* locator matches
C7_Witness ==
    /\ pc = "done"
    /\ page # <<>>
    /\ NothingMatches(page)
    /\ raised = {}
    /\ caught = 0
    /\ data_file = "written"
    /\ DOMAIN output.balances = {}
    /\ output.transactions = <<>>
    /\ exit_status = 0

(***************************************************************************)
(* C8: the phases of a run come in the order setup_driver,                 *)
(* scrape_wallet_page, extract_wallet_data, extract_transactions,          *)
(* calculate_stats, save_results, quit, none entered twice and none        *)
(* before the one before it; save_results is entered only when nothing     *)
(* escaped the earlier phases; after an escaping exception no further work *)
(* phase is entered; and a run that acquired a session ends with quit.     *)
(***************************************************************************)
C8_PhaseOrderState ==
    /\ \A k \in 1..Len(WorkPhases) : PhaseRank(WorkPhases[k]) = k
    /\ \A k \in 1..Len(Phases) : Phases[k] = "quit" => k = Len(Phases) /\ pc = "done"
    /\ pc = "save_results" => ~Failed /\ exc = "none" /\ Len(WorkPhases) = 5
    /\ Called("save_results") =>
          raised \cap (LoadRaises \cup TransactionRaises \cup ReportRaises) = {}
    /\ exc # "none" => pc \in {"except", "finally", "done"}
    /\ pc = "done" /\ driver # "none" => Last(Phases) = "quit"
    /\ pc # "done" => exit_status = -1

C8_PhaseOrder ==
    /\ []C8_PhaseOrderState
    /\ [][Failed \/ exc # "none" => WorkPhases' = WorkPhases]_vars

\* a failure in extraction: reporting and persistence skipped, the session
\* released
C8_Witness ==
    /\ pc = "done"
    /\ Phases = <<"setup_driver", "scrape_wallet_page", "extract_wallet_data",
                  "extract_transactions", "quit">>
    /\ raised = {"transactions.in"}
    /\ caught = 1

(***************************************************************************)
(* C9: self.transactions is in extraction order, nothing removed: for the  *)
(* five selectors in their order the accepted records of the first         *)
(* ElemCap matched elements, in element order, and then one link record    *)
(* for each of the first LinkCap '0x' links whose href contains            *)
(* 'transaction'; so the link records follow all the others, an element    *)
(* matched by two selectors gives two records, and there are never more    *)
(* than 5 * ElemCap + LinkCap records.                                     *)
(***************************************************************************)
Min(a, b) == IF a < b THEN a ELSE b

RowMatches(k) == find_elements(page, Css(TransactionSelectors[k]))

\* the positions, among the matches of selector k, whose record is kept
RowKept(k) ==
    {j \in 1..Min(Len(RowMatches(k)), ElemCap) : ParsedNode[RowMatches(k)[j]] # None}

RECURSIVE RowOffset(_)
\* the number of records of the selectors before selector k
RowOffset(k) == IF k = 1 THEN 0 ELSE RowOffset(k - 1) + Cardinality(RowKept(k - 1))

RowPosition(k, j) == RowOffset(k) + Cardinality({q \in RowKept(k) : q <= j})

LinkMatches == find_elements(page, LinkLocator)

LinkKept ==
    {j \in 1..Min(Len(LinkMatches), LinkCap) :
        Contains(DomElems[LinkMatches[j]].attrs.href, TxtTransaction)}

LinkPosition(j) == RowOffset(LinkQueryIndex) + Cardinality({q \in LinkKept : q <= j})

IsLinkRecord(tx) == "link" \in DOMAIN tx

\* line 163 was reached
TransactionsStored ==
    /\ Called("extract_transactions")
    /\ transactions # <<>> \/ Called("calculate_stats")

C9_ExtractionOrder ==
    /\ Len(transactions) <= Len(TransactionSelectors) * ElemCap + LinkCap
    /\ ~Called("extract_transactions") => transactions = <<>>
    /\ Called("calculate_stats") => Called("extract_transactions")
    /\ TransactionsStored =>
          /\ Len(transactions) = RowOffset(LinkQueryIndex) + Cardinality(LinkKept)
          /\ \A k \in 1..Len(TransactionSelectors) : \A j \in RowKept(k) :
                transactions[RowPosition(k, j)] = ParsedNode[RowMatches(k)[j]]
          /\ \A j \in LinkKept :
                transactions[LinkPosition(j)] =
                    [hash |-> DomElems[LinkMatches[j]].text,
                     link |-> DomElems[LinkMatches[j]].attrs.href,
                     type |-> "link"]
          /\ \A a, b \in 1..Len(transactions) :
                a < b /\ IsLinkRecord(transactions[a]) => IsLinkRecord(transactions[b])

\* more than ElemCap elements matched by two selectors, and a link: two
\* records for the first element, the link record last
C9_Witness ==
    /\ TransactionsStored
    /\ Len(RowMatches(1)) > ElemCap
    /\ RowMatches(4) = RowMatches(1)
    /\ Len(transactions) = 2 * ElemCap + 1
    /\ transactions[1] = transactions[ElemCap + 1]
    /\ IsLinkRecord(transactions[2 * ElemCap + 1])
    /\ ~IsLinkRecord(transactions[2 * ElemCap])

(***************************************************************************)
(* C10: when a selector query or a text read raises inside                 *)
(* extract_wallet_data, no exception leaves the method:                    *)
(* extract_transactions is next; self.balances is left unset and the       *)
(* balances written are empty, whatever had matched before; when nothing   *)
(* raises, the balances map each symbol to the amount of the last element  *)
(* that matched it, in selector-then-element order.                        *)
(***************************************************************************)
RECURSIVE BalanceWork(_)
\* the elements the loops visit, up to selector k
BalanceWork(k) ==
    IF k = 0 THEN <<>>
    ELSE BalanceWork(k - 1) \o find_elements(page, Css(BalanceSelectors[k]))

AllBalanceWork == BalanceWork(Len(BalanceSelectors))

\* the positions of the visit whose text gives an amount of symbol sym
SymbolAt(sym) ==
    {j \in 1..Len(AllBalanceWork) :
        /\ BalanceOfNode[AllBalanceWork[j]].found
        /\ BalanceOfNode[AllBalanceWork[j]].token = sym}

SymbolsFound ==
    {BalanceOfNode[AllBalanceWork[j]].token :
        j \in {q \in 1..Len(AllBalanceWork) : BalanceOfNode[AllBalanceWork[q]].found}}

MaxOf(S) == CHOOSE x \in S : \A y \in S : y <= x

LastWins(d) ==
    /\ DOMAIN d = SymbolsFound
    /\ \A sym \in SymbolsFound :
          d[sym] = BalanceOfNode[AllBalanceWork[MaxOf(SymbolAt(sym))]].amount

\* what holds of the balances, kept or written
C10_BalancesKept ==
    /\ ~Called("extract_wallet_data") => ~has_balances
    /\ raised \cap BalanceRaises # {} =>
          /\ ~has_balances
          /\ data_file = "written" => DOMAIN output.balances = {}
    /\ Called("extract_transactions") /\ raised \cap BalanceRaises = {} =>
          /\ has_balances <=> SymbolsFound # {}
          /\ has_balances => LastWins(balances)
          /\ data_file = "written" => LastWins(output.balances)

C10_BalancesAllOrNothing ==
    /\ C10_BalancesKept
    /\ raised \cap {"balances.find_elements", "balances.text"} # {} =>
          /\ pc = "done" => Called("extract_transactions")
          /\ Last(calls) = "extract_wallet_data" => pc = "extract_transactions"
====
